---------------------------- MODULE Spec2Model ----------------------------
(***************************************************************************)
(* Model of src/logic/reference.py: the attrs classes Book, Article and    *)
(* Inproceedings, their field validators (check_year, check_name,          *)
(* check_len, check_str, validators.instance_of), the int converter of     *)
(* year, the __init__ that attrs generates for @define classes and the     *)
(* __setattr__ hook (converter, then validators) that @define installs.    *)
(*                                                                         *)
(* Python values are tagged records [t, s, v]:                             *)
(*   t = "str"  : s is the string, v = 0                                   *)
(*   t = "int"  : v is the integer, s = <<>>                               *)
(*   t = "none" : None                                                     *)
(* A string is a sequence of runs [c |-> character, n |-> repetitions],    *)
(* n >= 1, so that strings of 5000 and 5001 characters stay small.  A      *)
(* character is a one-character string; "U+00E9" names the code point of   *)
(* the accented letter e-acute.                                            *)
(***************************************************************************)
EXTENDS Integers, Sequences, FiniteSets, TLC

VARIABLES clock, obj, arg, last

vars == <<clock, obj, arg, last>>

-----------------------------------------------------------------------------
(* Program constants *)

\* check_year: given_year < 500
YearMin == 500
\* check_year: given_year > year_now + 5
YearSlack == 5
\* check_len: len(given_str) > 5000
MaxFieldLen == 5000

(* Bounds of the model *)

\* the first value datetime.now().year takes
Year0 == 2026
\* how many times the calendar year advances
MaxTicks == 1

Clocks == Year0 .. (Year0 + MaxTicks)

-----------------------------------------------------------------------------
(* Characters and strings *)

AsciiLetters == {"A", "B", "E", "L", "T", "a", "b", "c", "e", "i", "k", "n", "o", "x"}
AccentedLetters == {"U+00E9"}
DigitChars == <<"0", "1", "2", "3", "4", "5", "6", "7", "8", "9">>
SpaceChars == {" ", "\t"}
PunctChars == {"-", "'", "_", "+", "."}

\* str.isalpha on one character: Unicode letters, accented ones included
IsAlphaChar(c) == c \in AsciiLetters \cup AccentedLetters
\* what str.split() and int() treat as whitespace
IsSpaceChar(c) == c \in SpaceChars
IsDigitChar(c) == \E i \in 1..10 : DigitChars[i] = c
DigitVal(c) == (CHOOSE i \in 1..10 : DigitChars[i] = c) - 1

Run(c, n) == IF n > 0 THEN <<[c |-> c, n |-> n]>> ELSE <<>>
Lit(chars) == [i \in 1..Len(chars) |-> [c |-> chars[i], n |-> 1]]

RECURSIVE StrLen(_)
\* len(s)
StrLen(s) == IF s = <<>> THEN 0 ELSE Head(s).n + StrLen(Tail(s))

RECURSIVE Expand(_)
\* the characters of s, one by one
Expand(s) ==
    IF s = <<>> THEN <<>>
    ELSE [i \in 1..Head(s).n |-> Head(s).c] \o Expand(Tail(s))

RECURSIVE SplitFrom(_, _, _, _)
SplitFrom(s, i, cur, acc) ==
    LET flushed == IF cur = <<>> THEN acc ELSE Append(acc, cur) IN
    IF i > Len(s) THEN flushed
    ELSE IF IsSpaceChar(s[i].c) THEN SplitFrom(s, i + 1, <<>>, flushed)
    ELSE SplitFrom(s, i + 1, Append(cur, s[i]), acc)

\* s.split(): the maximal runs of non-whitespace characters
Split(s) == SplitFrom(s, 1, <<>>, <<>>)

\* token.isalpha(): non-empty and every character a letter
IsAlpha(token) ==
    /\ token # <<>>
    /\ \A i \in 1..Len(token) : IsAlphaChar(token[i].c)

-----------------------------------------------------------------------------
(* Python values *)

None == [t |-> "none", s |-> <<>>, v |-> 0]
PyStr(s) == [t |-> "str", s |-> s, v |-> 0]
PyInt(n) == [t |-> "int", s |-> <<>>, v |-> n]

IsStr(x) == x.t = "str"
IsInt(x) == x.t = "int"

RECURSIVE DigitsOf(_)
DigitsOf(n) ==
    IF n < 10 THEN <<DigitChars[n + 1]>>
    ELSE Append(DigitsOf(n \div 10), DigitChars[(n % 10) + 1])

\* str(n) for n >= 0
StrOfNat(n) == Lit(DigitsOf(n))

-----------------------------------------------------------------------------
(* Exceptions: the class, the message text, the field names the message    *)
(* contains and the number it contains (0 when it contains none)           *)

NoErr == [exc |-> "none", msg |-> "", fields |-> {}, hi |-> 0]
Exc(exc, msg, fields, hi) == [exc |-> exc, msg |-> msg, fields |-> fields, hi |-> hi]


-----------------------------------------------------------------------------
(* The converter of year: int(x) *)

RECURSIVE LStrip(_)
LStrip(cs) == IF cs # <<>> /\ IsSpaceChar(Head(cs)) THEN LStrip(Tail(cs)) ELSE cs

RECURSIVE RStrip(_)
RStrip(cs) ==
    IF cs # <<>> /\ IsSpaceChar(cs[Len(cs)]) THEN RStrip(SubSeq(cs, 1, Len(cs) - 1)) ELSE cs

\* digits, with single underscores allowed between two digits
IsIntBody(cs) ==
    /\ cs # <<>>
    /\ \A i \in 1..Len(cs) : IsDigitChar(cs[i]) \/ cs[i] = "_"
    /\ IsDigitChar(cs[1]) /\ IsDigitChar(cs[Len(cs)])
    /\ \A i \in 1..(Len(cs) - 1) : ~(cs[i] = "_" /\ cs[i + 1] = "_")

RECURSIVE BodyVal(_, _)
BodyVal(cs, acc) ==
    IF cs = <<>> THEN acc
    ELSE IF Head(cs) = "_" THEN BodyVal(Tail(cs), acc)
    ELSE BodyVal(Tail(cs), 10 * acc + DigitVal(Head(cs)))

IntLiteralError == Exc("ValueError", "invalid literal for int() with base 10", {}, 0)
IntArgumentError ==
    Exc("TypeError", "int() argument must be a string, a bytes-like object or a real number", {}, 0)

\* int(text) for a str: surrounding whitespace stripped, an optional sign, digits
ParseInt(s) ==
    LET cs     == RStrip(LStrip(Expand(s)))
        signed == cs # <<>> /\ Head(cs) \in {"+", "-"}
        body   == IF signed THEN Tail(cs) ELSE cs
        mag    == BodyVal(body, 0)
    IN  IF IsIntBody(body)
        THEN [ok |-> TRUE, v |-> IF signed /\ Head(cs) = "-" THEN 0 - mag ELSE mag, err |-> NoErr]
        ELSE [ok |-> FALSE, v |-> 0, err |-> IntLiteralError]

\* converter=int
int_(x) ==
    CASE IsInt(x) -> [ok |-> TRUE, v |-> x.v, err |-> NoErr]
      [] IsStr(x) -> ParseInt(x.s)
      [] OTHER    -> [ok |-> FALSE, v |-> 0, err |-> IntArgumentError]

-----------------------------------------------------------------------------
(* The validators *)

YearRangeError(year_now) ==
    Exc("ValueError", "Given year is not in range [500, {year_now+5}]", {}, year_now + YearSlack)
NameCountError == Exc("ValueError", "First name and surname is required", {}, 0)
NameAlphaError == Exc("ValueError", "Name has to consists only of alphabet letters", {}, 0)
\* the length error raised with the text of the string-type error
LenErrorCoalesced == Exc("ValueError", "Given value is not a string.", {}, 0)
LenError == Exc("ValueError", "Str length exceeds BibTeX field character limit of 5000", {}, 0)
NotStrError == Exc("ValueError", "Given value is not a string.", {}, 0)
InstanceOfError(name, type) ==
    Exc("TypeError",
        IF type = "str" THEN "'{name}' must be <class 'str'>" ELSE "'{name}' must be <class 'int'>",
        {name}, 0)

\* validators.instance_of(str)
instance_of_str(name, value) == IF IsStr(value) THEN NoErr ELSE InstanceOfError(name, "str")

\* validators.instance_of(int)
instance_of_int(name, value) == IF IsInt(value) THEN NoErr ELSE InstanceOfError(name, "int")

\* check_year with the upper bound excluded
check_year_exclusive(given_year, year_now) ==
    IF ~IsInt(given_year)
    THEN Exc("TypeError", "'>' not supported between instances", {}, 0)
    ELSE IF (given_year.v >= year_now + YearSlack) \/ (given_year.v < YearMin)
    THEN YearRangeError(year_now)
    ELSE NoErr

check_year(given_year, year_now) ==
    IF ~IsInt(given_year)
    THEN Exc("TypeError", "'>' not supported between instances", {}, 0)
    ELSE IF (given_year.v > year_now + YearSlack) \/ (given_year.v < YearMin)
    THEN YearRangeError(year_now)
    ELSE NoErr

RECURSIVE FirstNonAlpha(_)
\* the for loop of check_name: TRUE when some token fails isalpha()
FirstNonAlpha(tokens) ==
    IF tokens = <<>> THEN FALSE
    ELSE IF ~IsAlpha(Head(tokens)) THEN TRUE
    ELSE FirstNonAlpha(Tail(tokens))

\* check_name that asks for one token only
check_name_one_token(given_name) ==
    IF ~IsStr(given_name)
    THEN Exc("AttributeError", "object has no attribute 'split'", {}, 0)
    ELSE LET split_name == Split(given_name.s)
             len_n      == Len(split_name)
         IN  IF len_n < 1 THEN NameCountError
             ELSE IF FirstNonAlpha(split_name) THEN NameAlphaError
             ELSE NoErr

check_name(given_name) ==
    IF ~IsStr(given_name)
    THEN Exc("AttributeError", "object has no attribute 'split'", {}, 0)
    ELSE LET split_name == Split(given_name.s)
             len_n      == Len(split_name)
         IN  IF len_n < 2 THEN NameCountError
             ELSE IF FirstNonAlpha(split_name) THEN NameAlphaError
             ELSE NoErr

\* check_len with the limit off by one
check_len_off_by_one(given_str) ==
    IF given_str = None THEN NoErr
    ELSE IF ~IsStr(given_str) THEN Exc("TypeError", "object has no len()", {}, 0)
    ELSE IF StrLen(given_str.s) > MaxFieldLen + 1 THEN LenError
    ELSE NoErr

check_len(given_str) ==
    IF given_str = None THEN NoErr
    ELSE IF ~IsStr(given_str) THEN Exc("TypeError", "object has no len()", {}, 0)
    ELSE IF StrLen(given_str.s) > MaxFieldLen THEN LenError
    ELSE NoErr

\* check_str without the None guard
check_str_no_none(given_str) ==
    IF ~IsStr(given_str) THEN NotStrError ELSE NoErr

check_str(given_str) ==
    IF given_str # None /\ ~IsStr(given_str) THEN NotStrError ELSE NoErr

-----------------------------------------------------------------------------
(* The classes: fields in declaration order, required fields, validators *)

Types == {"Book", "Article", "Inproceedings"}

BookFields ==
    <<"author", "title", "year", "publisher",
      "address", "edition", "editor", "month", "note", "number", "series", "volume">>
ArticleFields ==
    <<"author", "journal", "title", "year",
      "month", "note", "number", "pages", "volume">>
InproceedingsFields ==
    <<"author", "title", "year", "booktitle",
      "address", "editor", "month", "note", "number", "organization", "pages",
      "publisher", "series", "volume">>

FieldsOf ==
    [t \in Types |->
        CASE t = "Book" -> BookFields
          [] t = "Article" -> ArticleFields
          [] t = "Inproceedings" -> InproceedingsFields]

Fields(t) == FieldsOf[t]

\* the fields declared without default=: the first four of each class
RequiredOf == [t \in Types |-> {FieldsOf[t][i] : i \in 1..4}]
FieldSetOf == [t \in Types |-> {FieldsOf[t][i] : i \in 1..Len(FieldsOf[t])}]

Required(t) == RequiredOf[t]
FieldSet(t) == FieldSetOf[t]
Optional(t) == FieldSetOf[t] \ RequiredOf[t]

\* default=None
Default == None

\* author with the length check ahead of the name check
AuthorValidatorsLenFirst == <<"instance_of_str", "check_len", "check_name">>
AuthorValidators == <<"instance_of_str", "check_name", "check_len">>
StrValidators == <<"instance_of_str", "check_len">>
YearValidators == <<"instance_of_int", "check_year">>
OptionalValidators == <<"check_str", "check_len">>

ValidatorTable ==
    [t \in Types |->
        [f \in FieldSetOf[t] |->
            CASE f \notin RequiredOf[t] -> OptionalValidators
              [] f = "author" -> AuthorValidators
              [] f = "year" -> YearValidators
              [] OTHER -> StrValidators]]

\* validator=[...] of field f of class t
ValidatorsOf(t, f) == ValidatorTable[t][f]

\* converter=int is declared on year alone
HasConverter(f) == f = "year"

RunValidator(vname, f, value, year_now) ==
    CASE vname = "instance_of_str" -> instance_of_str(f, value)
      [] vname = "instance_of_int" -> instance_of_int(f, value)
      [] vname = "check_name" -> check_name(value)
      [] vname = "check_year" -> check_year(value, year_now)
      [] vname = "check_len" -> check_len(value)
      [] vname = "check_str" -> check_str(value)

RECURSIVE AndValidators(_, _, _, _)
\* a list of validators runs them in order; the first exception propagates
AndValidators(vs, f, value, year_now) ==
    IF vs = <<>> THEN NoErr
    ELSE LET e == RunValidator(Head(vs), f, value, year_now)
         IN  IF e # NoErr THEN e ELSE AndValidators(Tail(vs), f, value, year_now)

ValidateField(t, f, value, year_now) == AndValidators(ValidatorsOf(t, f), f, value, year_now)


-----------------------------------------------------------------------------
(* Construction and attribute assignment *)

NoInst == [type |-> "none", f |-> <<>>]

MissingError(names) ==
    Exc("TypeError", "__init__() missing required positional arguments", names, 0)

\* the arguments of __init__ once the defaults are filled in
BindArgs(t, inp) == [f \in FieldSet(t) |-> IF f \in DOMAIN inp THEN inp[f] ELSE Default]

\* no converter applied
ConvertedRaw(f, value) == value

\* self.year = __attr_converter_year(year); the other fields are stored as given
Converted(f, value) == IF HasConverter(f) THEN PyInt(int_(value).v) ELSE value

RECURSIVE ValidateFrom(_, _, _, _)
\* the validators of the fields, in declaration order, from field number i
ValidateFrom(t, attrs, i, year_now) ==
    IF i > Len(Fields(t)) THEN NoErr
    ELSE LET f == Fields(t)[i]
             e == ValidateField(t, f, attrs[f], year_now)
         IN  IF e # NoErr THEN e ELSE ValidateFrom(t, attrs, i + 1, year_now)

\* cls(**inp): the generated __init__
New(t, inp, year_now) ==
    LET missing == Required(t) \ DOMAIN inp
        bound   == BindArgs(t, inp)
        conv    == int_(bound["year"])
        attrs   == [f \in FieldSet(t) |-> Converted(f, bound[f])]
        verr    == ValidateFrom(t, attrs, 1, year_now)
    IN  IF missing # {} THEN [ok |-> FALSE, inst |-> NoInst, err |-> MissingError(missing)]
        ELSE IF ~conv.ok THEN [ok |-> FALSE, inst |-> NoInst, err |-> conv.err]
        ELSE IF verr # NoErr THEN [ok |-> FALSE, inst |-> NoInst, err |-> verr]
        ELSE [ok |-> TRUE, inst |-> [type |-> t, f |-> attrs], err |-> NoErr]

NoAttributeError(name) == Exc("AttributeError", "object has no attribute", {name}, 0)

\* a hook that converts and runs no validator
OnSetattrNoValidate(inst, name, value, year_now) ==
    LET conv == IF HasConverter(name) THEN int_(value) ELSE [ok |-> TRUE, v |-> 0, err |-> NoErr]
    IN  IF ~conv.ok THEN [ok |-> FALSE, val |-> value, err |-> conv.err]
        ELSE [ok |-> TRUE, val |-> Converted(name, value), err |-> NoErr]

\* the on_setattr hook of @define: setters.convert, then setters.validate
OnSetattr(inst, name, value, year_now) ==
    LET conv == IF HasConverter(name) THEN int_(value) ELSE [ok |-> TRUE, v |-> 0, err |-> NoErr]
        nval == Converted(name, value)
        verr == ValidateField(inst.type, name, nval, year_now)
    IN  IF ~conv.ok THEN [ok |-> FALSE, val |-> value, err |-> conv.err]
        ELSE IF verr # NoErr THEN [ok |-> FALSE, val |-> value, err |-> verr]
        ELSE [ok |-> TRUE, val |-> nval, err |-> NoErr]

\* a __setattr__ that stores the value before the hook has accepted it
SetAttributeStoreFirst(inst, name, value, year_now) ==
    IF name \notin FieldSet(inst.type)
    THEN [ok |-> FALSE, inst |-> inst, err |-> NoAttributeError(name)]
    ELSE LET h == OnSetattr(inst, name, value, year_now)
         IN  [ok |-> h.ok, inst |-> [inst EXCEPT !.f[name] = h.val], err |-> h.err]

\* inst.name = value: the generated __setattr__ of a slotted class
SetAttribute(inst, name, value, year_now) ==
    IF name \notin FieldSet(inst.type)
    THEN [ok |-> FALSE, inst |-> inst, err |-> NoAttributeError(name)]
    ELSE LET h == OnSetattr(inst, name, value, year_now)
         IN  IF h.ok
             THEN [ok |-> TRUE, inst |-> [inst EXCEPT !.f[name] = h.val], err |-> NoErr]
             ELSE [ok |-> FALSE, inst |-> inst, err |-> h.err]


-----------------------------------------------------------------------------
(* The argument values the operations are tried on *)

AnnLee == PyStr(Lit(<<"A", "n", "n", " ", "L", "e", "e">>))
AnnBLee == PyStr(Lit(<<"A", "n", "n", " ", "B", " ", "L", "e", "e">>))
SpacedName == PyStr(Lit(<<" ", "A", "n", "n", "\t", " ", "L", "e", "e", " ">>))
OneToken == PyStr(Lit(<<"A", "n", "n">>))
EmptyStr == PyStr(<<>>)
BlankStr == PyStr(Run(" ", 2))
DigitName == PyStr(Lit(<<"A", "n", "n", " ", "L", "e", "3">>))
AccentName == PyStr(Lit(<<"A", "n", "n", " ", "L", "U+00E9", "e">>))
HyphenName == PyStr(Lit(<<"A", "n", "n", "-", "L", "i", " ", "L", "e", "e">>))
ApostropheName == PyStr(Lit(<<"A", "n", "n", " ", "o", "'", "L", "e", "e">>))
\* two alphabetic tokens, MaxFieldLen characters in all
FullName == PyStr(Run("a", MaxFieldLen - 2) \o Run(" ", 1) \o Run("b", 1))
\* two alphabetic tokens, one character over the limit
LongName == PyStr(Run("a", MaxFieldLen - 1) \o Run(" ", 1) \o Run("b", 1))
\* one token, one character over the limit
LongToken == PyStr(Run("a", MaxFieldLen + 1))
\* a token with a digit, one character over the limit
LongDigitName == PyStr(Run("a", MaxFieldLen - 1) \o Run(" ", 1) \o Run("3", 1))

ShortStr == PyStr(Lit(<<"T">>))
OtherStr == PyStr(Lit(<<"x">>))
FullStr == PyStr(Run("x", MaxFieldLen))
LongStr == PyStr(Run("x", MaxFieldLen + 1))
NotAStr == PyInt(42)

AuthorValues ==
    {AnnLee, AnnBLee, SpacedName, OneToken, EmptyStr, BlankStr, DigitName, AccentName,
     HyphenName, ApostropheName, FullName, LongName, LongToken, LongDigitName, NotAStr, None}
StrValues == {ShortStr, EmptyStr, FullStr, LongStr, NotAStr, None}
OptionalValues == {None, OtherStr, FullStr, LongStr, NotAStr}

YearInts == {YearMin - 1, YearMin, 2008} \cup UNION {{c + YearSlack, c + YearSlack + 1} : c \in Clocks}
OddYearStrs ==
    {Lit(<<"a", "b", "c">>), <<>>, Lit(<<" ", "1", "9", "9", "1", "\t">>),
     Lit(<<"+", "2", "0", "0", "8">>), Lit(<<"1", "_", "9", "9", "1">>),
     Lit(<<"2", "0", "x", "8">>), Lit(<<"-", "5">>), Lit(<<"2", "0", "0", "8", ".", "5">>),
     Lit(<<"1", "9", "_">>)}
YearValues ==
    {PyInt(n) : n \in YearInts} \cup {PyStr(StrOfNat(n)) : n \in YearInts}
        \cup {PyStr(s) : s \in OddYearStrs} \cup {None}

\* marks a keyword that the call leaves out
Omit == [t |-> "omit", s |-> <<>>, v |-> 0]

Candidates(t, f) ==
    {Omit} \cup
    CASE f \in Optional(t) -> OptionalValues
      [] f = "author" -> AuthorValues
      [] f = "year" -> YearValues
      [] OTHER -> StrValues

\* the call of the class docstrings: the required fields, all valid
BaseInput(t) ==
    [f \in Required(t) |->
        CASE f = "author" -> AnnLee
          [] f = "year" -> PyInt(2008)
          [] OTHER -> ShortStr]

\* inp with keyword f given as c, or left out
WithArg(inp, f, c) ==
    IF c = Omit THEN [g \in DOMAIN inp \ {f} |-> inp[g]]
    ELSE [g \in DOMAIN inp \cup {f} |-> IF g = f THEN c ELSE inp[g]]

\* the values tried for a second keyword
Secondary(t, f) ==
    CASE f \in Optional(t) -> {None, LongStr}
      [] f = "author" -> {OneToken}
      [] f = "year" -> {PyStr(Lit(<<"a", "b", "c">>)), PyStr(Lit(<<" ", "1", "9", "9", "1", "\t">>))}
      [] OTHER -> {LongStr}

\* the base call with one keyword replaced, and a second one from Secondary
CtorInputs(t) ==
    UNION {{WithArg(WithArg(BaseInput(t), f2, c2), f1, c1) :
                c1 \in Candidates(t, f1), c2 \in Secondary(t, f2)} :
            f1 \in FieldSet(t), f2 \in FieldSet(t)}

NoArg == [typ |-> "none", inp |-> <<>>]
CtorArgs == UNION {{[typ |-> t, inp |-> inp] : inp \in CtorInputs(t)} : t \in Types}

LastYear == Year0 + MaxTicks

\* the calls tried while an instance lives
LifeInputsOf ==
    [t \in Types |->
        {BaseInput(t),
         WithArg(BaseInput(t), "author", OneToken),
         WithArg(BaseInput(t), "year", PyStr(StrOfNat(Year0 + YearSlack))),
         WithArg(BaseInput(t), Fields(t)[5], OtherStr)}]

\* the assignments tried on an instance of class t
AssignInputsOf ==
    [t \in Types |->
        {[name |-> "author", value |-> v] : v \in {AnnBLee, OneToken, NotAStr}}
        \cup {[name |-> Fields(t)[2], value |-> v] : v \in {EmptyStr, LongStr, None}}
        \cup {[name |-> "year", value |-> v] :
                v \in {PyInt(YearMin), PyStr(Lit(<<"1", "9", "9", "1">>)),
                       PyInt(Year0 + YearSlack), PyInt(LastYear + YearSlack + 1),
                       PyStr(Lit(<<"a", "b", "c">>)), None}}
        \cup {[name |-> Fields(t)[5], value |-> v] : v \in {None, OtherStr, LongStr, NotAStr}}
        \cup {[name |-> "isbn", value |-> OtherStr]}]

-----------------------------------------------------------------------------
(* The state machine *)

NoLast == [op |-> "none", typ |-> "none", inp |-> <<>>, now |-> 0, ok |-> TRUE, err |-> NoErr]

\* obj = cls(**inp); when __init__ raises, obj keeps its value
Construct(t, inp) ==
    LET r == New(t, inp, clock) IN
    /\ obj' = IF r.ok THEN r.inst ELSE obj
    /\ last' = [op |-> "init", typ |-> t, inp |-> inp, now |-> clock, ok |-> r.ok, err |-> r.err]
    /\ UNCHANGED <<clock, arg>>

\* obj.name = value
SetAttr(name, value) ==
    /\ obj # NoInst
    /\ LET r == SetAttribute(obj, name, value, clock) IN
        /\ obj' = r.inst
        /\ last' = [op |-> "setattr", typ |-> obj.type, inp |-> (name :> value), now |-> clock,
                    ok |-> r.ok, err |-> r.err]
    /\ UNCHANGED <<clock, arg>>

\* datetime.now().year moves to the next calendar year
Tick ==
    /\ clock < LastYear
    /\ clock' = clock + 1
    /\ UNCHANGED <<obj, arg, last>>

NewEntry == \E t \in Types : \E inp \in LifeInputsOf[t] : Construct(t, inp)

Assign == obj # NoInst /\ \E a \in AssignInputsOf[obj.type] : SetAttr(a.name, a.value)

Init ==
    /\ clock = Year0
    /\ obj = NoInst
    /\ arg = NoArg
    /\ last = NoLast

Next == NewEntry \/ Assign \/ Tick

Spec == Init /\ [][Next]_vars

(* One call of a constructor, on arguments drawn from CtorArgs *)

Call == arg # NoArg /\ Construct(arg.typ, arg.inp)

InitCtor ==
    /\ clock \in Clocks
    /\ obj = NoInst
    /\ arg \in CtorArgs
    /\ last = NoLast

NextCtor == Call

SpecCtor == InitCtor /\ [][NextCtor]_vars


-----------------------------------------------------------------------------
(* What the properties speak about *)

\* the last operation was a constructor call
Called == last.op = "init"

\* keyword f was passed in the last call
Given(f) == f \in DOMAIN last.inp

\* at least two whitespace-separated tokens, each purely alphabetic
TwoAlphaTokens(s) ==
    LET tokens == Split(s) IN
    /\ Len(tokens) >= 2
    /\ \A i \in 1..Len(tokens) : IsAlpha(tokens[i])

WithinLimit(v) == StrLen(v.s) <= MaxFieldLen
GoodName(v) == IsStr(v) /\ TwoAlphaTokens(v.s) /\ WithinLimit(v)
GoodText(v) == IsStr(v) /\ WithinLimit(v)
GoodOptional(v) == v = None \/ GoodText(v)
Coercible(v) == int_(v).ok
IntOf(v) == int_(v).v
GoodYear(v, now) == Coercible(v) /\ YearMin <= IntOf(v) /\ IntOf(v) <= now + YearSlack

\* field f of a call of class t with keywords inp satisfies every rule of the field
GoodField(t, f, inp, now) ==
    IF f \notin DOMAIN inp THEN f \in Optional(t)
    ELSE CASE f \in Optional(t) -> GoodOptional(inp[f])
           [] f = "author" -> GoodName(inp[f])
           [] f = "year" -> GoodYear(inp[f], now)
           [] OTHER -> GoodText(inp[f])

OthersGood(f) ==
    \A g \in FieldSet(last.typ) \ {f} : GoodField(last.typ, g, last.inp, last.now)

AllGood == \A g \in FieldSet(last.typ) : GoodField(last.typ, g, last.inp, last.now)

NameErrors == {NameCountError, NameAlphaError}

\* the error the rules of field f give for value v, by the order type, name, length
FieldError(t, f, v, now) ==
    CASE f \in Optional(t) ->
            IF v # None /\ ~IsStr(v) THEN NotStrError ELSE LenError
      [] f = "author" ->
            IF ~IsStr(v) THEN InstanceOfError(f, "str")
            ELSE IF Len(Split(v.s)) < 2 THEN NameCountError
            ELSE IF ~TwoAlphaTokens(v.s) THEN NameAlphaError
            ELSE LenError
      [] f = "year" -> YearRangeError(now)
      [] OTHER -> IF ~IsStr(v) THEN InstanceOfError(f, "str") ELSE LenError

\* the first field, in declaration order, of the last call that breaks a rule
BadIndexes ==
    {i \in 1..Len(Fields(last.typ)) :
        ~GoodField(last.typ, Fields(last.typ)[i], last.inp, last.now)}
FirstBad == Fields(last.typ)[CHOOSE i \in BadIndexes : \A j \in BadIndexes : i <= j]

MissingFields == Required(last.typ) \ DOMAIN last.inp

\* the error the last call is to end with: missing arguments, then the
\* conversion of year, then the first bad field
ExpectedError ==
    IF MissingFields # {} THEN MissingError(MissingFields)
    ELSE IF ~Coercible(last.inp["year"]) THEN int_(last.inp["year"]).err
    ELSE FieldError(last.typ, FirstBad, last.inp[FirstBad], last.now)

\* the condition of the error taxonomy that a report stands for
RuleOf(e) ==
    CASE e.msg = "Str length exceeds BibTeX field character limit of 5000" -> "FieldTooLong"
      [] e.msg \in {"First name and surname is required",
                    "Name has to consists only of alphabet letters"} -> "InvalidName"
      [] e.msg = "Given year is not in range [500, {year_now+5}]" -> "InvalidYear"
      [] e.msg = "__init__() missing required positional arguments" -> "MissingRequiredField"
      [] e.msg \in {"Given value is not a string.",
                    "'{name}' must be <class 'str'>",
                    "'{name}' must be <class 'int'>",
                    "invalid literal for int() with base 10",
                    "int() argument must be a string, a bytes-like object or a real number"}
            -> "InvalidType"
      [] OTHER -> "unknown"

\* the condition of the taxonomy that the last call falls under
ExpectedRule ==
    IF MissingFields # {} THEN "MissingRequiredField"
    ELSE IF ~Coercible(last.inp["year"]) THEN "InvalidType"
    ELSE LET f == FirstBad
             v == last.inp[f]
         IN  CASE f = "year" -> "InvalidYear"
               [] ~IsStr(v) /\ (v # None \/ f \in Required(last.typ)) -> "InvalidType"
               [] f = "author" /\ ~TwoAlphaTokens(v.s) -> "InvalidName"
               [] OTHER -> "FieldTooLong"

\* some token of s holds an accented letter, a hyphen or an apostrophe
HasSpecialToken(s) ==
    \E i \in 1..Len(s) : s[i].c \in AccentedLetters \cup {"-", "'"}

-----------------------------------------------------------------------------
(* C1: with every other field valid, a call with year = v succeeds exactly *)
(* when v converts to an integer that lies in [500, current year + 5],     *)
(* for Book, Article and Inproceedings alike.                              *)
C1_YearRange ==
    (Called /\ Given("year") /\ OthersGood("year"))
        => (last.ok <=> GoodYear(last.inp["year"], last.now))

\* a numeric string equal to the upper bound is accepted
C1_Witness ==
    /\ Called /\ Given("year") /\ OthersGood("year")
    /\ IsStr(last.inp["year"])
    /\ IntOf(last.inp["year"]) = last.now + YearSlack
    /\ last.ok

C3_StrictAlphabet ==
    (Called /\ Given("author") /\ IsStr(last.inp["author"])
        /\ HasSpecialToken(last.inp["author"].s))
        => /\ ~last.ok
           /\ OthersGood("author") => last.err \in NameErrors

(* C4 as stated: with the other fields valid, a string field longer than   *)
(* 5000 characters makes the call fail with the length error, whatever     *)
(* else holds of that field's content.                                     *)
C4_Original ==
    Called =>
        \A f \in DOMAIN last.inp \ {"year"} :
            (IsStr(last.inp[f]) /\ ~WithinLimit(last.inp[f]) /\ OthersGood(f))
                => (~last.ok /\ last.err = LenError)

(* C4 amended: with the other fields valid, a string field longer than     *)
(* 5000 characters makes the call fail; the error is the length error,     *)
(* except for an author whose name format is invalid, where it is the      *)
(* name-format error; a string of exactly 5000 characters never gives the  *)
(* length error.                                                           *)
C4_LengthLimit ==
    Called =>
        \A f \in DOMAIN last.inp \ {"year"} :
            (IsStr(last.inp[f]) /\ OthersGood(f)) =>
                /\ ~WithinLimit(last.inp[f]) =>
                      /\ ~last.ok
                      /\ IF f = "author" /\ ~TwoAlphaTokens(last.inp[f].s)
                         THEN last.err \in NameErrors
                         ELSE last.err = LenError
                /\ StrLen(last.inp[f].s) = MaxFieldLen => last.err # LenError

\* an author of two alphabetic tokens and 5001 characters gives the length error
C4_Witness ==
    /\ Called /\ Given("author") /\ IsStr(last.inp["author"]) /\ OthersGood("author")
    /\ TwoAlphaTokens(last.inp["author"].s)
    /\ StrLen(last.inp["author"].s) = MaxFieldLen + 1
    /\ last.err = LenError

(* C5: a call whose fields are all valid succeeds, and every field of the  *)
(* instance equals the value passed, year equals int(value passed), and    *)
(* the optional fields left out read None.                                 *)
C5_FieldsEqualInputs ==
    (Called /\ AllGood) =>
        /\ last.ok
        /\ obj.type = last.typ
        /\ DOMAIN obj.f = FieldSet(last.typ)
        /\ \A f \in FieldSet(last.typ) :
              obj.f[f] = IF f = "year" THEN PyInt(IntOf(last.inp["year"]))
                         ELSE IF Given(f) THEN last.inp[f]
                         ELSE None

\* year passed as a padded numeric string, one optional field passed, others left out
C5_Witness ==
    /\ Called /\ AllGood /\ last.ok
    /\ IsStr(last.inp["year"]) /\ obj.f["year"] = PyInt(1991)
    /\ \E f \in Optional(last.typ) : Given(f) /\ IsStr(last.inp[f])
    /\ \E f \in Optional(last.typ) : ~Given(f)

(* C6: for an optional field f, the call with f = None and the call with   *)
(* f left out end the same way: both succeed with equal instances in which *)
(* f is None, or both fail with the same error; neither the length check   *)
(* nor the string-or-absent check rejects f.                               *)
C6_NoneIsOmission ==
    Called =>
        \A f \in Optional(last.typ) :
            (Given(f) /\ last.inp[f] = None) =>
                LET r == New(last.typ, WithArg(last.inp, f, Omit), last.now) IN
                /\ r.ok = last.ok
                /\ r.err = last.err
                /\ last.ok => (r.inst = obj /\ obj.f[f] = None)
                /\ check_str(None) = NoErr /\ check_len(None) = NoErr
                /\ check_str(Default) = NoErr /\ check_len(Default) = NoErr

\* a successful call that passes None for an optional field
C6_Witness ==
    /\ Called /\ last.ok
    /\ \E f \in Optional(last.typ) : Given(f) /\ last.inp[f] = None

(* C9 as stated: the report of a failed call names the field that was      *)
(* rejected and stands for the rule that was broken.                       *)
C9_Original ==
    (Called /\ ~last.ok) =>
        /\ RuleOf(last.err) = ExpectedRule
        /\ last.err.fields = IF MissingFields # {} THEN MissingFields
                             ELSE IF ~Coercible(last.inp["year"]) THEN {"year"}
                             ELSE {FirstBad}

(* C9 amended: the report of a failed call stands for the rule that was    *)
(* broken, so the five conditions are told apart by the report alone; it   *)
(* names the field only for missing arguments and for a required string    *)
(* field given a non-string, and names no field otherwise.                 *)
C9_RuleIdentified ==
    (Called /\ ~last.ok) =>
        /\ RuleOf(last.err) = ExpectedRule
        /\ last.err.fields =
              IF MissingFields # {} THEN MissingFields
              ELSE IF ~Coercible(last.inp["year"]) THEN {}
              ELSE IF FirstBad \in Required(last.typ) \ {"year"} /\ ~IsStr(last.inp[FirstBad])
              THEN {FirstBad}
              ELSE {}

\* a too-long required field other than author: the report names no field
C9_Witness ==
    /\ Called /\ ~last.ok
    /\ MissingFields = {} /\ Coercible(last.inp["year"])
    /\ FirstBad \in Required(last.typ) \ {"author", "year"}
    /\ last.err = LenError
    /\ last.err.fields = {}

(* C10: a call with several invalid fields yields no instance and one      *)
(* error: that of a year that does not convert, whatever the other fields, *)
(* and otherwise that of the first invalid field in declaration order,     *)
(* within which the type check precedes the name check and the name check  *)
(* the length check.                                                       *)
C10_FirstErrorWins ==
    (Called /\ MissingFields = {}) =>
        /\ last.ok <=> AllGood
        /\ ~last.ok => (obj = NoInst /\ last.err = ExpectedError)

\* an invalid author and a year that does not convert: the conversion error
C10_Witness ==
    /\ Called /\ MissingFields = {}
    /\ ~GoodField(last.typ, "author", last.inp, last.now)
    /\ ~Coercible(last.inp["year"])
    /\ last.err = IntLiteralError


-----------------------------------------------------------------------------
(* Properties of an instance over its lifetime *)

(* C7: in every reachable state the instance satisfies the rules of its    *)
(* fields: author has at least two alphabetic tokens, year is an integer   *)
(* in [500, current year + 5], every string is at most 5000 characters     *)
(* long, every required string field is a string and every optional field *)
(* is None or a string.                                                    *)
C7_FieldInvariants ==
    obj # NoInst =>
        /\ GoodName(obj.f["author"])
        /\ IsInt(obj.f["year"])
        /\ YearMin <= obj.f["year"].v /\ obj.f["year"].v <= clock + YearSlack
        /\ \A f \in Required(obj.type) \ {"author", "year"} : GoodText(obj.f[f])
        /\ \A f \in Optional(obj.type) : GoodOptional(obj.f[f])

\* year was assigned its upper bound, and the calendar year has moved on since
C7_Witness ==
    /\ obj # NoInst
    /\ last.op = "setattr" /\ last.ok
    /\ "year" \in DOMAIN last.inp
    /\ obj.f["year"].v = last.now + YearSlack
    /\ clock > last.now

\* the step binds obj to the result of a constructor call
Rebinding == last' # last /\ last'.op = "init"

\* the step is an attribute assignment
Assigning == last' # last /\ last'.op = "setattr"

(* C8 as stated: once an instance exists, no operation on it changes any   *)
(* of its field values.                                                    *)
C8_Original == [][(obj # NoInst /\ ~Rebinding) => obj' = obj]_vars

(* C8 amended: the fields of an instance change only by an attribute       *)
(* assignment that succeeds; it replaces the one field assigned by the     *)
(* converted value, which passes the validators of the field, and leaves   *)
(* the other fields alone; an assignment that fails, and the passing of    *)
(* time, change nothing.                                                   *)
C8_OnlyValidAssignment ==
    [][(obj # NoInst /\ ~Rebinding) =>
          /\ obj'.type = obj.type
          /\ obj' # obj => (Assigning /\ last'.ok)
          /\ (Assigning /\ ~last'.ok) => obj' = obj
          /\ (Assigning /\ last'.ok) =>
                \E name \in DOMAIN last'.inp :
                    /\ name \in FieldSet(obj.type)
                    /\ obj'.f[name] = IF name = "year" THEN PyInt(IntOf(last'.inp[name]))
                                      ELSE last'.inp[name]
                    /\ GoodField(obj.type, name, last'.inp, clock)
                    /\ \A g \in FieldSet(obj.type) \ {name} : obj'.f[g] = obj.f[g]]_vars

\* an assignment of a numeric string to year has replaced the field by its integer
C8_Witness ==
    /\ last.op = "setattr" /\ last.ok
    /\ "year" \in DOMAIN last.inp
    /\ IsStr(last.inp["year"])
    /\ obj.f["year"] = PyInt(1991)

=============================================================================
